---------------------------- MODULE Spec2Model ----------------------------
(***************************************************************************)
(* Model of src/server.js: the /api/identify handler of the music          *)
(* identification gateway (credential check, request signing, provider     *)
(* call, body parse, response) and the pure function                       *)
(* parseACRCloudResponse.                                                  *)
(*                                                                         *)
(* JavaScript values are tagged records [k |-> kind, v |-> payload].       *)
(* Numbers are held in thousandths (Num(970) is 0.97, JsInt(3) is 3), so     *)
(* that a score such as 0.97 and Math.round / Math.floor stay integer      *)
(* arithmetic.  An exception is the value TypeError; every operator that   *)
(* evaluates a JavaScript expression propagates it.                        *)
(***************************************************************************)
EXTENDS Integers, Sequences, FiniteSets, TLC

VARIABLES
    config,     \* acrcloudConfig, the module-level configuration object
    pc,         \* per request: position of its handler invocation
    file,       \* per request: req.file as multer delivered it
    stamps,     \* per request: the values read into `timestamp`
    signed,     \* per request: the calls made to generateSignature
    outbound,   \* per request: the requests sent to the provider by fetch
    wire,       \* per request: what the provider connection delivered
    response,   \* per request: the handler's local `response`
    parseCalls, \* per request: the arguments given to parseACRCloudResponse
    res,        \* per request: the responses written to the caller
    reply,      \* argument of a direct call of parseACRCloudResponse
    outcome     \* its result

vars == <<config, pc, file, stamps, signed, outbound, wire, response,
          parseCalls, res, reply, outcome>>

handlerVars == <<config, pc, file, stamps, signed, outbound, wire, response,
                 parseCalls, res>>

---------------------------------------------------------------------------
(* Bounds of the model.                                                    *)

MaxRequests == 2

MaxTick == 1

MaxMusicLen == 2

Requests == 1..MaxRequests

---------------------------------------------------------------------------
(* JavaScript values.                                                      *)

Undefined == [k |-> "undefined"]

Null == [k |-> "null"]

NaN == [k |-> "NaN"]

TypeError == [k |-> "throw", v |-> "TypeError"]

Num(m) == [k |-> "number", v |-> m]

JsInt(n) == Num(n * 1000)

Str(s) == [k |-> "string", v |-> s]

Bool(b) == [k |-> "boolean", v |-> b]

Arr(s) == [k |-> "array", v |-> s]

Obj(f) == [k |-> "object", v |-> f]

NoProps == [n \in {} |-> Undefined]

IsThrow(x) == x.k = "throw"

\* ToBoolean: what `x && ...`, `x || ...`, `x ? a : b` and `!x` test.
Truthy(x) ==
    CASE x.k \in {"undefined", "null", "NaN"} -> FALSE
      [] x.k = "number" -> x.v # 0
      [] x.k = "string" -> x.v # ""
      [] x.k = "boolean" -> x.v
      [] OTHER -> TRUE

\* x.p : a property read.  Reading a property of undefined or null throws.
Get(x, p) ==
    CASE x.k = "throw" -> x
      [] x.k \in {"undefined", "null"} -> TypeError
      [] x.k = "object" -> IF p \in DOMAIN x.v THEN x.v[p] ELSE Undefined
      [] x.k \in {"array", "string"} /\ p = "length" -> JsInt(Len(x.v))
      [] OTHER -> Undefined

\* x?.p : optional chaining.
OptGet(x, p) == IF x.k \in {"undefined", "null"} THEN Undefined ELSE Get(x, p)

\* x[0]
First(x) ==
    CASE x.k = "throw" -> x
      [] x.k \in {"undefined", "null"} -> TypeError
      [] x.k = "array" -> IF Len(x.v) > 0 THEN x.v[1] ELSE Undefined
      [] x.k = "string" -> IF Len(x.v) > 0 THEN Str(SubSeq(x.v, 1, 1)) ELSE Undefined
      [] x.k = "object" -> IF "0" \in DOMAIN x.v THEN x.v["0"] ELSE Undefined
      [] OTHER -> Undefined

\* a || b
Or(a, b) == IF IsThrow(a) THEN a ELSE IF Truthy(a) THEN a ELSE b

Digits == <<"0", "1", "2", "3", "4", "5", "6", "7", "8", "9">>

IsDigit(c) == \E i \in 1..10 : Digits[i] = c

DigitVal(c) == (CHOOSE i \in 1..10 : Digits[i] = c) - 1

AllDigits(s) == \A i \in 1..Len(s) : IsDigit(SubSeq(s, i, i))

RECURSIVE DecValue(_)
DecValue(s) ==
    IF Len(s) = 0 THEN 0
    ELSE DecValue(SubSeq(s, 1, Len(s) - 1)) * 10 + DigitVal(SubSeq(s, Len(s), Len(s)))

\* Number.prototype.toString of a non-negative integer.
RECURSIVE NumberToString(_)
NumberToString(n) ==
    IF n < 10 THEN Digits[n + 1]
    ELSE NumberToString(n \div 10) \o Digits[(n % 10) + 1]

DotAt(s) == {i \in 1..Len(s) : SubSeq(s, i, i) = "."}

\* ToNumber of a string: decimal literals with an optional sign and up to
\* three fraction digits; the empty string is 0; anything else is NaN.
UnsignedToNumber(s) ==
    IF s = "" THEN NaN
    ELSE IF DotAt(s) = {}
    THEN IF AllDigits(s) THEN JsInt(DecValue(s)) ELSE NaN
    ELSE LET d == CHOOSE i \in DotAt(s) : TRUE
             ip == SubSeq(s, 1, d - 1)
             fp == SubSeq(s, d + 1, Len(s))
             f3 == SubSeq(fp \o "000", 1, 3)
         IN  IF AllDigits(ip) /\ AllDigits(fp) /\ Len(ip) + Len(fp) > 0 /\ Len(fp) <= 3
             THEN Num(DecValue(ip) * 1000 + DecValue(f3))
             ELSE NaN

StringToNumber(s) ==
    IF s = "" THEN JsInt(0)
    ELSE IF SubSeq(s, 1, 1) = "-"
    THEN LET u == UnsignedToNumber(SubSeq(s, 2, Len(s)))
         IN  IF u.k = "number" THEN Num(0 - u.v) ELSE NaN
    ELSE UnsignedToNumber(s)

\* ToNumber, as the operators * / > and Math.round apply it.
RECURSIVE ToNumber(_)
ToNumber(x) ==
    CASE x.k = "throw" -> x
      [] x.k = "number" -> x
      [] x.k = "null" -> JsInt(0)
      [] x.k = "boolean" -> IF x.v THEN JsInt(1) ELSE JsInt(0)
      [] x.k = "string" -> StringToNumber(x.v)
      [] x.k = "array" ->
            IF Len(x.v) = 0 THEN JsInt(0)
            ELSE IF Len(x.v) > 1 THEN NaN
            ELSE IF x.v[1].k \in {"undefined", "null"} THEN JsInt(0)
            ELSE IF x.v[1].k \in {"number", "string", "array"} THEN ToNumber(x.v[1])
            ELSE NaN
      [] OTHER -> NaN

\* x > 0
GreaterThanZero(x) == LET n == ToNumber(x) IN n.k = "number" /\ n.v > 0

\* x === 0 and x === <integer>
StrictEqualsInt(x, n) == x.k = "number" /\ x.v = n * 1000

\* Math.round(x * 100): round half up to an integer.
MathRoundTimes100(x) ==
    LET n == ToNumber(x)
    IN  IF n.k = "number" THEN JsInt((n.v * 100 + 500) \div 1000) ELSE n

\* Math.floor(x / 1000)
MathFloorDiv1000(x) ==
    LET n == ToNumber(x)
    IN  IF n.k = "number" THEN JsInt(n.v \div 1000000) ELSE n

\* x.substring(0, 4): a method of strings only; calling it on any other
\* value throws ("substring is not a function").
Substring04(x) ==
    IF x.k = "string"
    THEN Str(SubSeq(x.v, 1, IF Len(x.v) < 4 THEN Len(x.v) ELSE 4))
    ELSE TypeError

\* ToString of a value interpolated in a template literal.
TemplateString(x) ==
    CASE x.k = "string" -> x.v
      [] x.k = "number" /\ x.v >= 0 /\ x.v % 1000 = 0 -> NumberToString(x.v \div 1000)
      [] x.k = "boolean" -> IF x.v THEN "true" ELSE "false"
      [] x.k = "array" /\ Len(x.v) = 0 -> ""
      [] OTHER -> "[object Object]"

---------------------------------------------------------------------------
(* parseACRCloudResponse, src/server.js lines 110-156.                     *)

\* Line 111: the guard of the success branch.
IsMatch(data) ==
    /\ Truthy(data)
    /\ Truthy(Get(data, "status"))
    /\ StrictEqualsInt(Get(Get(data, "status"), "code"), 0)
    /\ Truthy(Get(data, "metadata"))
    /\ Truthy(Get(Get(data, "metadata"), "music"))
    /\ GreaterThanZero(Get(Get(Get(data, "metadata"), "music"), "length"))

\* Lines 131, 137, 143: data && data.status && data.status.code === code
HasCode(data, code) ==
    /\ Truthy(data)
    /\ Truthy(Get(data, "status"))
    /\ StrictEqualsInt(Get(Get(data, "status"), "code"), code)

\* Line 117
SongTitle(music) == Or(Get(music, "title"), Str("Unknown Title"))

\* Line 118
SongArtist(music) ==
    LET artists == Get(music, "artists")
    IN  IF IsThrow(artists) THEN artists
        ELSE IF Truthy(artists) /\ GreaterThanZero(Get(artists, "length"))
        THEN Get(First(artists), "name")
        ELSE Str("Unknown Artist")

\* Line 119
SongAlbum(music) ==
    LET album == Get(music, "album")
    IN  IF IsThrow(album) THEN album
        ELSE IF Truthy(album) THEN Get(album, "name")
        ELSE Str("Unknown Album")

\* Line 120
SongYear(music) ==
    LET date == Get(music, "release_date")
    IN  IF IsThrow(date) THEN date
        ELSE IF Truthy(date) THEN Substring04(date)
        ELSE Str("Unknown")

\* Line 121
SongConfidence(music) ==
    LET score == Get(music, "score")
    IN  IF IsThrow(score) THEN score
        ELSE Or(MathRoundTimes100(score), JsInt(95))

\* Line 122
SongDuration(music) ==
    LET ms == Get(music, "duration_ms")
    IN  IF IsThrow(ms) THEN ms
        ELSE IF Truthy(ms) THEN MathFloorDiv1000(ms)
        ELSE Null

\* Line 123
SongSpotifyUrl(music) ==
    OptGet(OptGet(OptGet(OptGet(Get(music, "external_metadata"),
        "spotify"), "track"), "external_urls"), "spotify")

\* Line 124
SongYoutubeUrl(music) ==
    LET vid == OptGet(OptGet(Get(music, "external_metadata"), "youtube"), "vid")
    IN  IF IsThrow(vid) THEN vid
        ELSE IF Truthy(vid)
        THEN Str("https://www.youtube.com/watch?v=" \o TemplateString(vid))
        ELSE Null

\* Line 125
SongAppleUrl(music) ==
    OptGet(OptGet(Get(music, "external_metadata"), "apple_music"), "url")

\* Line 126
SongCoverArt(music) ==
    Or(OptGet(Get(music, "album"), "artwork_url_500"),
       OptGet(Get(music, "album"), "artwork_url"))

\* Line 127
SongPreviewUrl(music) ==
    OptGet(OptGet(OptGet(Get(music, "external_metadata"),
        "spotify"), "track"), "preview_url")

\* Lines 116-129: the song object literal.
Song(music) ==
    [title |-> SongTitle(music),
     artist |-> SongArtist(music),
     album |-> SongAlbum(music),
     year |-> SongYear(music),
     confidence |-> SongConfidence(music),
     duration |-> SongDuration(music),
     spotify_url |-> SongSpotifyUrl(music),
     youtube_url |-> SongYoutubeUrl(music),
     apple_url |-> SongAppleUrl(music),
     cover_art |-> SongCoverArt(music),
     preview_url |-> SongPreviewUrl(music),
     isReal |-> Bool(TRUE)]

\* Lines 112-130: an exception in any property initialiser leaves the
\* function without a return value.
MatchResult(data) ==
    LET music == First(Get(Get(data, "metadata"), "music"))
        song == Song(music)
    IN  IF \E f \in DOMAIN song : IsThrow(song[f])
        THEN TypeError
        ELSE Obj([success |-> Bool(TRUE), song |-> Obj(song)])

Failure(message, code) ==
    Obj([success |-> Bool(FALSE), error |-> Str(message), code |-> JsInt(code)])

parseACRCloudResponse(data) ==
    IF IsMatch(data) THEN MatchResult(data)
    ELSE IF HasCode(data, 1001) THEN Failure("No music found in database", 1001)
    ELSE IF HasCode(data, 3001) THEN Failure("Invalid access key", 3001)
    ELSE IF HasCode(data, 3003) THEN Failure("Rate limit exceeded", 3003)
    ELSE Obj([success |-> Bool(FALSE),
              error |-> Str("Unknown response format"),
              data |-> data])

---------------------------------------------------------------------------
(* The configuration, the signer and the outbound request,                 *)
(* src/server.js lines 27-39 and 59-74.                                    *)

\* process.env.ACRCLOUD_ACCESS_KEY: unset, empty or set.
AccessKeys == {Undefined, Str(""), Str("abc123")}

\* process.env.ACRCLOUD_ACCESS_SECRET: unset, empty or set.
AccessSecrets == {Undefined, Str(""), Str("s3cret")}

acrcloudConfig(key, secret) ==
    [host |-> Str("identify-ap-southeast-1.acrcloud.com"),
     access_key |-> key,
     access_secret |-> secret,
     endpoint |-> Str("/v1/identify")]

\* crypto.createHmac('sha1', secret).update(stringToSign).digest('base64'):
\* the digest is kept as the term of its two inputs.
generateSignature(stringToSign, secret) ==
    [alg |-> "HMAC-SHA1/base64", msg |-> stringToSign, key |-> secret]

\* Date.now() in milliseconds, held as whole seconds and the remainder.
Clock == [sec : {1700000000 + i : i \in 0..MaxTick}, ms : {0, 999}]

\* Line 59: Math.floor(Date.now() / 1000)
UnixSeconds(now) == now.sec + (now.ms \div 1000)

\* Variant of the credential check that tests the key alone.
KeyOnlyMissing(cfg) == ~Truthy(cfg.access_key)

\* Line 48
CredentialsMissing(cfg) ==
    ~Truthy(cfg.access_key) \/ ~Truthy(cfg.access_secret)

\* Variant of the template literal with the data type and the signature
\* version exchanged.
SwappedStringToSign(cfg, timestamp) ==
    "POST\n" \o TemplateString(cfg.endpoint) \o "\n"
        \o TemplateString(cfg.access_key) \o "\n1\naudio\n"
        \o NumberToString(timestamp)

\* Line 60: the template literal.
StringToSign(cfg, timestamp) ==
    "POST\n" \o TemplateString(cfg.endpoint) \o "\n"
        \o TemplateString(cfg.access_key) \o "\naudio\n1\n"
        \o NumberToString(timestamp)

\* Variant of the timestamp field that reads the clock again, a second
\* after the signed value was taken.
StaleTimestampField(timestamp) == NumberToString(timestamp + 1)

\* Line 74: timestamp.toString()
TimestampField(timestamp) == NumberToString(timestamp)

\* Lines 64-74: the fields appended to the form.
FormData(cfg, f, signature, timestamp) ==
    [sample |-> [buffer |-> Get(f, "buffer"),
                 filename |-> Or(Get(f, "originalname"), Str("audio.wav")),
                 contentType |-> Or(Get(f, "mimetype"), Str("audio/wav"))],
     sample_bytes |-> TemplateString(Get(f, "size")),
     access_key |-> TemplateString(cfg.access_key),
     data_type |-> "audio",
     signature_version |-> "1",
     signature |-> signature,
     timestamp |-> TimestampField(timestamp)]

\* Lines 79-84: the call of fetch.
ProviderRequest(cfg, form) ==
    [url |-> "https://" \o TemplateString(cfg.host) \o TemplateString(cfg.endpoint),
     method |-> "POST",
     body |-> form]

---------------------------------------------------------------------------
(* Inputs of the handler.                                                  *)

\* req.file: absent, or the upload multer stored in memory.
Uploads ==
    {Undefined,
     Obj([originalname |-> Str("clip.wav"), mimetype |-> Str("audio/wav"),
          size |-> JsInt(4), buffer |-> Str("RIFF")])}

MatchReply ==
    Obj([status |-> Obj([code |-> JsInt(0), msg |-> Str("Success")]),
         metadata |-> Obj([music |-> Arr(<<
            Obj([title |-> Str("Song A"),
                 artists |-> Arr(<<Obj([name |-> Str("Artist A")])>>),
                 score |-> Num(970)])>>)])])

NullArtistReply ==
    Obj([status |-> Obj([code |-> JsInt(0)]),
         metadata |-> Obj([music |-> Arr(<<Obj([artists |-> Arr(<<Null>>)])>>)])])

NoResultReply == Obj([status |-> Obj([code |-> JsInt(1001)])])

\* A provider body: the text of a JSON document (kept as the document) or
\* text that is no JSON.
Bodies ==
    {[json |-> TRUE, doc |-> MatchReply],
     [json |-> TRUE, doc |-> NullArtistReply],
     [json |-> TRUE, doc |-> NoResultReply],
     [json |-> FALSE, text |-> "<html>502 Bad Gateway</html>"]}

Statuses == {200, 502}

\* node-fetch: response.ok
IsOk(status) == status >= 200 /\ status <= 299

\* JSON.stringify as res.json applies it: a property whose value is
\* undefined is dropped, undefined in an array and NaN become null.
RECURSIVE JsonStringify(_), StringifyElements(_)
JsonStringify(x) ==
    CASE x.k = "object" ->
            Obj([p \in {q \in DOMAIN x.v : x.v[q].k # "undefined"} |->
                    JsonStringify(x.v[p])])
      [] x.k = "array" -> Arr(StringifyElements(x.v))
      [] x.k = "NaN" -> Null
      [] OTHER -> x

StringifyElements(s) ==
    IF Len(s) = 0 THEN <<>>
    ELSE <<IF Head(s).k = "undefined" THEN Null ELSE JsonStringify(Head(s))>>
            \o StringifyElements(Tail(s))

\* response.json(): the document of a JSON body; any other body rejects.
JsonParse(body) == IF body.json THEN body.doc ELSE TypeError

---------------------------------------------------------------------------
(* The /api/identify handler, src/server.js lines 42-108.  A handler       *)
(* invocation runs without interruption between its two await points       *)
(* (the provider call, line 80, and the body parse, line 86).              *)

\* res.status(status).json(body)
Respond(r, status, body) ==
    [res EXCEPT ![r] = Append(@, [status |-> status, body |-> JsonStringify(body)])]

\* Variant of the catch block that logs the error and sends nothing.
CatchLogsOnly(r, message) == res

\* Lines 101-107: the catch block.
CatchBlock(r, message) ==
    Respond(r, 500, Obj([error |-> Str("Internal server error"),
                         message |-> Str(message)]))

\* Variant of the local `response` as one binding shared by every
\* invocation of the handler.
SharedResponse(r, v) == [q \in Requests |-> v]

\* Line 80: const response = ..., a local of the invocation.
StoreResponse(r, v) == [response EXCEPT ![r] = v]

Init ==
    /\ config \in {acrcloudConfig(key, secret) :
                      key \in AccessKeys, secret \in AccessSecrets}
    /\ pc = [r \in Requests |-> "idle"]
    /\ file = [r \in Requests |-> Undefined]
    /\ stamps = [r \in Requests |-> <<>>]
    /\ signed = [r \in Requests |-> <<>>]
    /\ outbound = [r \in Requests |-> <<>>]
    /\ wire = [r \in Requests |-> <<>>]
    /\ response = [r \in Requests |-> Undefined]
    /\ parseCalls = [r \in Requests |-> <<>>]
    /\ res = [r \in Requests |-> <<>>]
    /\ reply = Undefined
    /\ outcome = [k |-> "pending"]

\* Lines 42-80: a request arrives and the handler runs up to the await of
\* fetch, or answers at once.
Identify(r) ==
    /\ pc[r] = "idle"
    /\ \E f \in Uploads, now \in Clock :
        /\ file' = [file EXCEPT ![r] = f]
        /\ IF ~Truthy(f)
           THEN /\ res' = Respond(r, 400, Obj([error |-> Str("No audio file provided")]))
                /\ pc' = [pc EXCEPT ![r] = "done"]
                /\ UNCHANGED <<stamps, signed, outbound>>
           ELSE IF CredentialsMissing(config)
           THEN /\ res' = Respond(r, 500,
                              Obj([error |-> Str("ACRCloud API keys not configured")]))
                /\ pc' = [pc EXCEPT ![r] = "done"]
                /\ UNCHANGED <<stamps, signed, outbound>>
           ELSE LET timestamp == UnixSeconds(now)
                    stringToSign == StringToSign(config, timestamp)
                    signature == generateSignature(stringToSign, config.access_secret)
                    formData == FormData(config, f, signature, timestamp)
                IN  /\ stamps' = [stamps EXCEPT ![r] = Append(@, timestamp)]
                    /\ signed' = [signed EXCEPT ![r] = Append(@,
                                    [stringToSign |-> stringToSign,
                                     secret |-> config.access_secret,
                                     signature |-> signature])]
                    /\ outbound' = [outbound EXCEPT ![r] =
                                        Append(@, ProviderRequest(config, formData))]
                    /\ pc' = [pc EXCEPT ![r] = "fetch"]
                    /\ UNCHANGED res
    /\ UNCHANGED <<config, wire, response, parseCalls, reply, outcome>>

\* Line 80 resumes: fetch resolved with the provider's status and body;
\* line 86 starts reading the body.
FetchResolve(r) ==
    /\ pc[r] = "fetch"
    /\ \E status \in Statuses, body \in Bodies :
        /\ wire' = [wire EXCEPT ![r] = Append(@, [status |-> status, body |-> body])]
        /\ response' = StoreResponse(r, [status |-> status, ok |-> IsOk(status),
                                         body |-> body])
    /\ pc' = [pc EXCEPT ![r] = "json"]
    /\ UNCHANGED <<config, file, stamps, signed, outbound, parseCalls, res,
                   reply, outcome>>

\* Line 80 resumes: fetch rejected (the provider was not reached); the
\* catch block answers.
FetchReject(r) ==
    /\ pc[r] = "fetch"
    /\ wire' = [wire EXCEPT ![r] = Append(@, [failed |-> TRUE])]
    /\ res' = CatchBlock(r, "request to provider failed")
    /\ pc' = [pc EXCEPT ![r] = "done"]
    /\ UNCHANGED <<config, file, stamps, signed, outbound, response, parseCalls,
                   reply, outcome>>

\* Lines 86-99 (and 101-107): the body parsed as JSON.
JsonResolve(r) ==
    /\ pc[r] = "json"
    /\ ~IsThrow(JsonParse(response[r].body))
    /\ LET data == JsonParse(response[r].body)
       IN  IF ~response[r].ok
           THEN /\ res' = Respond(r, response[r].status,
                              Obj([error |-> Str("ACRCloud API error"),
                                   details |-> data]))
                /\ UNCHANGED parseCalls
           ELSE LET result == parseACRCloudResponse(data)
                IN  /\ parseCalls' = [parseCalls EXCEPT ![r] = Append(@, data)]
                    /\ res' = IF IsThrow(result)
                              THEN CatchBlock(r, "Cannot read properties of null")
                              ELSE Respond(r, 200, result)
    /\ pc' = [pc EXCEPT ![r] = "done"]
    /\ UNCHANGED <<config, file, stamps, signed, outbound, wire, response,
                   reply, outcome>>

\* Line 86 throws: the body is no JSON; the catch block answers.
JsonReject(r) ==
    /\ pc[r] = "json"
    /\ IsThrow(JsonParse(response[r].body))
    /\ res' = CatchBlock(r, "invalid json response body")
    /\ pc' = [pc EXCEPT ![r] = "done"]
    /\ UNCHANGED <<config, file, stamps, signed, outbound, wire, response,
                   parseCalls, reply, outcome>>

Next ==
    \E r \in Requests :
        \/ Identify(r)
        \/ FetchResolve(r)
        \/ FetchReject(r)
        \/ JsonResolve(r)
        \/ JsonReject(r)

Spec == Init /\ [][Next]_vars

\* Line 86 resumes: the handler leaves the await of the body parse, by
\* JsonResolve or by JsonReject.
ResumeAfterBody(r) ==
    /\ pc[r] = "json"
    /\ pc' = [pc EXCEPT ![r] = "done"]

\* The event loop runs a continuation whose promise has settled: once the
\* reply has arrived and its body is read, the handler resumes.
LiveSpec ==
    /\ Init
    /\ [][Next]_vars
    /\ \A r \in Requests : WF_pc(ResumeAfterBody(r))

---------------------------------------------------------------------------
(* Direct calls of parseACRCloudResponse on a bounded set of replies.      *)

\* An object literal whose absent properties are given as Undefined.
Literal(f) == Obj([p \in {q \in DOMAIN f : f[q].k # "undefined"} |-> f[p]])

TitleOptions == {Undefined, Str("Song A")}

ArtistsOptions ==
    {Undefined, Null, Arr(<<>>), Arr(<<Null>>), Arr(<<Obj(NoProps)>>),
     Arr(<<Obj([name |-> Str("Artist A")])>>)}

AlbumOptions ==
    {Undefined, Null, Obj(NoProps), Obj([name |-> Str("Album A")]),
     Obj([name |-> Str("Album A"), artwork_url |-> Str("https://img/a.jpg")])}

DateOptions == {Undefined, Null, Str("2020-01-31"), JsInt(2020)}

ScoreOptions ==
    {Undefined, Null, JsInt(0), Num(4), Num(970), JsInt(1), JsInt(2),
     Num(0 - 500), Str("abc"), Str("0.5")}

DurationOptions == {Undefined, JsInt(215999)}

ExternalOptions ==
    {Undefined, Null, Obj(NoProps), Obj([spotify |-> Obj(NoProps)]),
     Obj([spotify |-> Obj([track |-> Obj([
            external_urls |-> Obj([spotify |-> Str("https://open.spotify.com/track/1")]),
            preview_url |-> Str("https://p.scdn.co/mp3-preview/1")])])]),
     Obj([youtube |-> Obj([vid |-> Str("dQw4w9WgXcQ")])]),
     Obj([apple_music |-> Obj([url |-> Str("https://music.apple.com/song/1")])])}

Candidates ==
    {Null, Str("x")} \cup
    {Literal([title |-> t, artists |-> ar, album |-> al, release_date |-> d,
              score |-> sc, duration_ms |-> du, external_metadata |-> em]) :
        t \in TitleOptions, ar \in ArtistsOptions, al \in AlbumOptions,
        d \in DateOptions, sc \in ScoreOptions, du \in DurationOptions,
        em \in ExternalOptions}

\* Music lists of up to MaxMusicLen candidates; only the first one varies.
RECURSIVE Fill(_, _)
Fill(list, n) ==
    IF Len(list) >= n THEN list
    ELSE Fill(Append(list, Obj([title |-> Str("Song B")])), n)

MusicLists ==
    {<<>>} \cup {Fill(<<c>>, n) : c \in Candidates, n \in 1..MaxMusicLen}

CodeOptions ==
    {Undefined, Null, JsInt(0), JsInt(1001), JsInt(3001), JsInt(3003),
     JsInt(2004), Str("0")}

MetadataOptions ==
    {Undefined, Null, Obj(NoProps), Obj([music |-> Null]), Obj([music |-> Arr(<<>>)]),
     Obj([music |-> Str("abc")]),
     Obj([music |-> Arr(<<Obj([title |-> Str("Song A")])>>)])}

Replies ==
    {Undefined, Null, Str("error"), Obj(NoProps), Obj([status |-> Null]),
     Obj([status |-> JsInt(0)])}
    \cup {Literal([status |-> Literal([code |-> c]), metadata |-> m]) :
            c \in CodeOptions, m \in MetadataOptions}
    \cup {Obj([status |-> Obj([code |-> JsInt(0)]),
               metadata |-> Obj([music |-> Arr(list)])]) : list \in MusicLists}

ParseInit ==
    /\ config = acrcloudConfig(Str("abc123"), Str("s3cret"))
    /\ pc = [r \in Requests |-> "idle"]
    /\ file = [r \in Requests |-> Undefined]
    /\ stamps = [r \in Requests |-> <<>>]
    /\ signed = [r \in Requests |-> <<>>]
    /\ outbound = [r \in Requests |-> <<>>]
    /\ wire = [r \in Requests |-> <<>>]
    /\ response = [r \in Requests |-> Undefined]
    /\ parseCalls = [r \in Requests |-> <<>>]
    /\ res = [r \in Requests |-> <<>>]
    /\ reply \in Replies
    /\ outcome = [k |-> "pending"]

\* Line 98, taken alone: the function applied to a reply.
Normalize ==
    /\ outcome.k = "pending"
    /\ outcome' = parseACRCloudResponse(reply)
    /\ UNCHANGED <<handlerVars, reply>>

ParseNext == Normalize

ParseSpec == ParseInit /\ [][ParseNext]_vars

---------------------------------------------------------------------------
(* Vocabulary of the properties: the reply and the canonical string read   *)
(* independently of the handler's own operators.                           *)

Missing(x) == x.k \in {"undefined", "null"}

\* The value at a path of property names; Undefined when a link is absent.
RECURSIVE Lookup(_, _)
Lookup(x, path) ==
    IF Len(path) = 0 THEN x
    ELSE IF x.k = "object" /\ Head(path) \in DOMAIN x.v
    THEN Lookup(x.v[Head(path)], Tail(path))
    ELSE Undefined

ReplyCode(d) == Lookup(d, <<"status", "code">>)

ReplyMusic(d) == Lookup(d, <<"metadata", "music">>)

HasMatches(d) ==
    /\ ReplyMusic(d).k \in {"array", "string"}
    /\ Len(ReplyMusic(d).v) > 0

FirstCandidate(d) ==
    IF ReplyMusic(d).k = "array" /\ Len(ReplyMusic(d).v) > 0
    THEN ReplyMusic(d).v[1]
    ELSE Undefined

FirstArtist(m) ==
    LET artists == Lookup(m, <<"artists">>)
    IN  IF artists.k = "array" /\ Len(artists.v) > 0 THEN artists.v[1] ELSE Undefined

IsSuccess(o) ==
    /\ o.k = "object"
    /\ o.v.success = Bool(TRUE)
    /\ DOMAIN o.v = {"success", "song"}

IsFailure(o, message, code) ==
    /\ o.k = "object"
    /\ o.v = [success |-> Bool(FALSE), error |-> Str(message), code |-> JsInt(code)]

IsUnknownFormat(o, d) ==
    /\ o.k = "object"
    /\ o.v = [success |-> Bool(FALSE), error |-> Str("Unknown response format"),
              data |-> d]

Called == outcome.k # "pending"

\* The lines of a string: its pieces between newline characters.
RECURSIVE SplitLines(_)
SplitLines(s) ==
    LET nl == {i \in 1..Len(s) : SubSeq(s, i, i) = "\n"}
    IN  IF nl = {} THEN <<s>>
        ELSE LET i == CHOOSE j \in nl : \A h \in nl : j <= h
             IN  <<SubSeq(s, 1, i - 1)>> \o SplitLines(SubSeq(s, i + 1, Len(s)))

KeysAbsent ==
    \/ config.access_key \in {Undefined, Str("")}
    \/ config.access_secret \in {Undefined, Str("")}

ConfigurationError ==
    [status |-> 500, body |-> Obj([error |-> Str("ACRCloud API keys not configured")])]

IsInternalError(answer) ==
    /\ answer.status = 500
    /\ answer.body.k = "object"
    /\ "error" \in DOMAIN answer.body.v
    /\ answer.body.v.error = Str("Internal server error")

---------------------------------------------------------------------------
(* Properties of parseACRCloudResponse, checked under ParseSpec.           *)

\* C1: every reply gets exactly one outcome, chosen in the fixed order:
\* Success iff status.code is 0 and metadata.music is non-empty, else
\* NotFound iff the code is 1001, else InvalidCredentials iff 3001, else
\* RateLimited iff 3003, else UnknownFormat carrying the reply unchanged.
C1_OneOutcomeInFixedOrder ==
    Called =>
        IF ReplyCode(reply) = JsInt(0) /\ HasMatches(reply)
        THEN IsSuccess(outcome)
        ELSE IF ReplyCode(reply) = JsInt(1001)
        THEN IsFailure(outcome, "No music found in database", 1001)
        ELSE IF ReplyCode(reply) = JsInt(3001)
        THEN IsFailure(outcome, "Invalid access key", 3001)
        ELSE IF ReplyCode(reply) = JsInt(3003)
        THEN IsFailure(outcome, "Rate limit exceeded", 3003)
        ELSE IsUnknownFormat(outcome, reply)

\* The first candidate is an object each of whose consulted fields is
\* absent, null or of the type the provider documents.
WellTypedCandidate(m) ==
    /\ m.k = "object"
    /\ Lookup(m, <<"release_date">>).k \in {"undefined", "null", "string"}
    /\ Lookup(m, <<"artists">>).k \in {"undefined", "null", "array"}

\* C5: a reply with code 0 and a non-empty music list yields Success and
\* never raises, whatever nested structure of the first candidate is
\* absent or null.
C5_MatchNeverRaises ==
    (/\ Called
     /\ ReplyCode(reply) = JsInt(0)
     /\ HasMatches(reply)
     /\ WellTypedCandidate(FirstCandidate(reply)))
        => IsSuccess(outcome)

\* C6: in a Success outcome every field the provider omits takes its
\* stated default: the "Unknown ..." placeholders for title, artist, album
\* and year, and null for duration and for every link.
C6_OmittedFieldsTakeDefaults ==
    (Called /\ IsSuccess(outcome) /\ FirstCandidate(reply).k = "object") =>
        LET m == FirstCandidate(reply)
            song == outcome.v.song.v
        IN  /\ Missing(Lookup(m, <<"title">>)) => song.title = Str("Unknown Title")
            /\ Missing(Lookup(FirstArtist(m), <<"name">>))
                    => song.artist = Str("Unknown Artist")
            /\ Missing(Lookup(m, <<"album", "name">>))
                    => song.album = Str("Unknown Album")
            /\ Missing(Lookup(m, <<"release_date">>)) => song.year = Str("Unknown")
            /\ Missing(Lookup(m, <<"duration_ms">>)) => song.duration = Null
            /\ Missing(Lookup(m, <<"external_metadata", "spotify", "track",
                                   "external_urls", "spotify">>))
                    => song.spotify_url = Null
            /\ Missing(Lookup(m, <<"external_metadata", "youtube", "vid">>))
                    => song.youtube_url = Null
            /\ Missing(Lookup(m, <<"external_metadata", "apple_music", "url">>))
                    => song.apple_url = Null
            /\ (/\ Missing(Lookup(m, <<"album", "artwork_url_500">>))
                /\ Missing(Lookup(m, <<"album", "artwork_url">>)))
                    => song.cover_art = Null
            /\ Missing(Lookup(m, <<"external_metadata", "spotify", "track",
                                   "preview_url">>))
                    => song.preview_url = Null

\* round(score x 100) of a score held in thousandths, halves upwards.
RoundedPercent(score) == (score.v + 5) \div 10

\* C7: in a Success outcome the confidence is an integer from 0 to 100:
\* round(score x 100) for a non-zero numeric score, and 95 when the score
\* is absent, zero, not a number, or rounds to 0.
C7_ConfidenceInRange ==
    (Called /\ IsSuccess(outcome) /\ FirstCandidate(reply).k = "object") =>
        LET score == Lookup(FirstCandidate(reply), <<"score">>)
            c == outcome.v.song.v.confidence
        IN  /\ c.k = "number"
            /\ c.v % 1000 = 0
            /\ c.v >= 0 /\ c.v <= 100 * 1000
            /\ (score.k = "number" /\ RoundedPercent(score) # 0)
                    => c = JsInt(RoundedPercent(score))
            /\ (\/ score.k = "undefined"
                \/ score = Str("abc")
                \/ (score.k = "number" /\ RoundedPercent(score) = 0))
                    => c = JsInt(95)

---------------------------------------------------------------------------
(* Properties of the handler, checked under Spec.                          *)

\* C2: while the access key or the access secret is empty or missing, no
\* signature is ever computed and no request is ever sent to the provider,
\* and a request that carried an audio file has ended with the
\* configuration-error response.
C2_NoSigningWithoutCredentials ==
    KeysAbsent =>
        \A r \in Requests :
            /\ signed[r] = <<>>
            /\ outbound[r] = <<>>
            /\ (pc[r] # "idle" /\ Truthy(file[r]))
                    => (pc[r] = "done" /\ res[r] = <<ConfigurationError>>)

C2_Witness ==
    \E r \in Requests :
        /\ config.access_key = Str("abc123")
        /\ config.access_secret = Str("")
        /\ Truthy(file[r])
        /\ res[r] = <<ConfigurationError>>

\* C3: for every request that reached the provider the timestamp was
\* captured exactly once, the outbound timestamp field is the timestamp
\* line of the string that was signed into the outbound signature field,
\* and the outbound access_key field is the key line of that string.
C3_SignedAndSentTimestampAgree ==
    \A r \in Requests :
        outbound[r] # <<>> =>
            /\ Len(stamps[r]) = 1
            /\ Len(signed[r]) = 1
            /\ LET form == outbound[r][1].body
                   lines == SplitLines(signed[r][1].stringToSign)
               IN  /\ form.signature = signed[r][1].signature
                   /\ form.signature.msg = signed[r][1].stringToSign
                   /\ Len(lines) = 6
                   /\ form.timestamp = lines[6]
                   /\ DecValue(form.timestamp) = stamps[r][1]
                   /\ form.access_key = lines[3]

C3_Witness ==
    \E r \in Requests :
        /\ outbound[r] # <<>>
        /\ outbound[r][1].body.timestamp = "1700000001"

\* C4: the signed string is exactly the six fields POST, endpoint path,
\* access key id, audio, 1, timestamp, in that order, joined by single
\* newlines with no leading or trailing separator; path /v1/identify, key
\* abc123 and timestamp 1700000000 give
\* "POST\n/v1/identify\nabc123\naudio\n1\n1700000000".
C4_CanonicalString ==
    \A r \in Requests :
        \A i \in 1..Len(signed[r]) :
            LET s == signed[r][i].stringToSign
                lines == SplitLines(s)
            IN  /\ Len(lines) = 6
                /\ lines[1] = "POST"
                /\ lines[2] = config.endpoint.v
                /\ lines[3] = config.access_key.v
                /\ lines[4] = "audio"
                /\ lines[5] = "1"
                /\ AllDigits(lines[6]) /\ DecValue(lines[6]) = stamps[r][i]
                /\ Len(s) = Len(lines[2]) + Len(lines[3]) + Len(lines[6]) + 15
                /\ (config.access_key = Str("abc123") /\ stamps[r][i] = 1700000000)
                        => s = "POST\n/v1/identify\nabc123\naudio\n1\n1700000000"

C4_Witness ==
    \E r \in Requests :
        /\ Len(signed[r]) = 1
        /\ config.access_key = Str("abc123")
        /\ stamps[r] = <<1700000000>>

\* C8: whenever the provider answered with a non-2xx status, the response
\* to the caller carries the provider's status and the provider's payload,
\* and the reply was never given to parseACRCloudResponse, for every
\* provider body, one that is no JSON included.
C8_RejectionSurfaced ==
    \A r \in Requests :
        (/\ pc[r] = "done"
         /\ wire[r] # <<>>
         /\ "status" \in DOMAIN wire[r][1]
         /\ ~(wire[r][1].status \in 200..299))
            => /\ parseCalls[r] = <<>>
               /\ Len(res[r]) = 1
               /\ res[r][1].status = wire[r][1].status
               /\ Lookup(res[r][1].body, <<"details">>) =
                    (IF wire[r][1].body.json THEN wire[r][1].body.doc
                     ELSE Str(wire[r][1].body.text))

\* Everything one invocation of the handler holds.
Invocation(r) ==
    <<pc[r], file[r], stamps[r], signed[r], outbound[r], wire[r], response[r],
      parseCalls[r], res[r]>>

\* The response a request is due, from its own file, the credentials and
\* what its own provider connection delivered.
DueResponse(f, w) ==
    IF ~Truthy(f)
    THEN [status |-> 400, body |-> Obj([error |-> Str("No audio file provided")])]
    ELSE IF KeysAbsent THEN ConfigurationError
    ELSE IF "failed" \in DOMAIN w[1]
    THEN [status |-> 500,
          body |-> Obj([error |-> Str("Internal server error"),
                        message |-> Str("request to provider failed")])]
    ELSE IF ~w[1].body.json
    THEN [status |-> 500,
          body |-> Obj([error |-> Str("Internal server error"),
                        message |-> Str("invalid json response body")])]
    ELSE IF ~(w[1].status \in 200..299)
    THEN [status |-> w[1].status,
          body |-> Obj([error |-> Str("ACRCloud API error"), details |-> w[1].body.doc])]
    ELSE IF IsThrow(parseACRCloudResponse(w[1].body.doc))
    THEN [status |-> 500,
          body |-> Obj([error |-> Str("Internal server error"),
                        message |-> Str("Cannot read properties of null")])]
    ELSE [status |-> 200,
          body |-> JsonStringify(parseACRCloudResponse(w[1].body.doc))]

\* C9: with requests interleaved at their await points, a step of one
\* request leaves everything another invocation holds unchanged, the
\* configuration object is never modified, and the response to a request
\* is a function of its own file, the credentials and its own provider
\* reply.
C9_RequestsIsolated ==
    [][/\ config' = config
       /\ \A q \in Requests : pc'[q] = pc[q] => Invocation(q)' = Invocation(q)
       /\ \A r \in Requests :
            pc'[r] = "done" => res'[r] = <<DueResponse(file'[r], wire'[r])>>]_vars

C9_Witness ==
    \E r, q \in Requests :
        /\ r # q
        /\ pc[r] = "done" /\ wire[r] # <<>> /\ "status" \in DOMAIN wire[r][1]
        /\ pc[q] = "json"
        /\ wire[q] # wire[r]
        /\ outbound[q] # <<>> /\ outbound[r] # <<>>

---------------------------------------------------------------------------
(* Property of the handler checked under LiveSpec.                         *)

\* The provider call of request r failed, or the body parse or the
\* normalizer threw.
ThrewAfterSend(r) ==
    /\ wire[r] # <<>>
    /\ \/ "failed" \in DOMAIN wire[r][1]
       \/ ~wire[r][1].body.json
       \/ /\ wire[r][1].status \in 200..299
          /\ IsThrow(parseACRCloudResponse(wire[r][1].body.doc))

\* C10: every request whose provider call completed eventually receives
\* exactly one response, never zero and never two, on every path (400
\* without a file, 500 without credentials, the provider's status, the
\* normalized outcome, 500 "Internal server error" after an exception),
\* and at most one provider call is made per request.
C10_ExactlyOneResponse ==
    /\ [](\A r \in Requests :
            /\ Len(res[r]) <= 1
            /\ Len(outbound[r]) <= 1
            /\ pc[r] = "done" <=> Len(res[r]) = 1
            /\ (pc[r] = "done" /\ ThrewAfterSend(r)) => IsInternalError(res[r][1])
            /\ (pc[r] = "done" /\ ~Truthy(file[r])) => res[r][1].status = 400)
    /\ \A r \in Requests : (wire[r] # <<>>) ~> (Len(res[r]) = 1 /\ pc[r] = "done")

C10_Witness ==
    \E r \in Requests :
        /\ pc[r] = "done"
        /\ parseCalls[r] = <<NullArtistReply>>
        /\ Len(res[r]) = 1
        /\ IsInternalError(res[r][1])

=============================================================================
